---- MODULE Spec2Model ----
(***************************************************************************)
(* Model of meloshub-tools: cmd/metagen (static scan of adapter            *)
(* registrations into adapters.yaml) and cmd/differ (change report between *)
(* two metadata snapshots).                                                *)
(*                                                                         *)
(* Go strings are TLA+ strings; syntax trees are records with a "kind"     *)
(* field, one kind per go/ast node type the tools look at.  What the type  *)
(* checker resolved (types.Info) is carried on the nodes: an identifier    *)
(* carries its object, a composite literal the printed form of its type.   *)
(***************************************************************************)
EXTENDS Integers, Sequences, FiniteSets, TLC

(***************************************************************************)
(* Bounds of the model                                                     *)
(***************************************************************************)
MaxPkgs == 2
MaxRuns == 2
MaxStmts == 2
MaxList == 2

(***************************************************************************)
(* package strings                                                         *)
(***************************************************************************)
HasSuffix(s, suffix) ==
  /\ Len(s) >= Len(suffix)
  /\ SubSeq(s, Len(s) - Len(suffix) + 1, Len(s)) = suffix

Contains(s, substr) ==
  \E i \in 1..(Len(s) - Len(substr) + 1) : SubSeq(s, i, i + Len(substr) - 1) = substr

RECURSIVE TrimLeft(_, _)
TrimLeft(s, c) ==
  IF Len(s) > 0 /\ SubSeq(s, 1, 1) = c THEN TrimLeft(SubSeq(s, 2, Len(s)), c) ELSE s

RECURSIVE TrimRight(_, _)
TrimRight(s, c) ==
  IF Len(s) > 0 /\ SubSeq(s, Len(s), Len(s)) = c
  THEN TrimRight(SubSeq(s, 1, Len(s) - 1), c) ELSE s

\* strings.Trim(s, cutset) for a one-character cutset
Trim(s, c) == TrimRight(TrimLeft(s, c), c)

\* the bytes that occur in identifiers of the model, in ascending byte order
ByteOrder == "\"-0123456789ABCDEFGHIJKLMNOPQRSTUVWXYZ\\abcdefghijklmnopqrstuvwxyz"

Ord(c) == CHOOSE i \in 1..Len(ByteOrder) : SubSeq(ByteOrder, i, i) = c

\* Go's < on strings: bytewise lexicographic
StrLess(a, b) ==
  \E i \in 1..(Len(b)) :
    /\ i <= Len(a) + 1
    /\ SubSeq(a, 1, i - 1) = SubSeq(b, 1, i - 1)
    /\ \/ i = Len(a) + 1
       \/ Ord(SubSeq(a, i, i)) < Ord(SubSeq(b, i, i))

(***************************************************************************)
(* adapter.Metadata and its serialisation                                  *)
(***************************************************************************)
Metadata(id, title, type, version, author, description) ==
  [Id |-> id, Title |-> title, Type |-> type, Version |-> version,
   Author |-> author, Description |-> description]

ZeroMetadata == Metadata("", "", "", "", "", "")

\* a nil *adapter.Metadata, a nil ast.Expr, a nil *ast.FuncDecl
Nil == [kind |-> "nil"]

\* a run-time panic unwinding through the callers
Panic == [kind |-> "panic"]

Found(m) == [kind |-> "meta", meta |-> m]

\* yaml.Marshal of one record: the mapping of its six fields, in field order
YamlRecord(m) ==
  << <<"Id", m.Id>>, <<"Title", m.Title>>, <<"Type", m.Type>>,
     <<"Version", m.Version>>, <<"Author", m.Author>>,
     <<"Description", m.Description>> >>

\* yaml.Marshal of a []adapter.Metadata: a sequence of mappings
YamlMarshal(list) == [i \in 1..Len(list) |-> YamlRecord(list[i])]

YamlValue(doc, key) ==
  LET hits == {i \in 1..Len(doc) : doc[i][1] = key}
  IN IF hits = {} THEN "" ELSE doc[CHOOSE i \in hits : \A j \in hits : j <= i][2]

\* yaml.Unmarshal into a []adapter.Metadata
YamlUnmarshal(text) ==
  [i \in 1..Len(text) |->
     Metadata(YamlValue(text[i], "Id"), YamlValue(text[i], "Title"),
              YamlValue(text[i], "Type"), YamlValue(text[i], "Version"),
              YamlValue(text[i], "Author"), YamlValue(text[i], "Description"))]

(***************************************************************************)
(* go/types objects and go/constant values                                 *)
(***************************************************************************)
StringConst(s) == [k |-> "String", s |-> s, n |-> 0]
IntConst(n) == [k |-> "Int", s |-> "", n |-> n]
BoolConst(b) == [k |-> "Bool", s |-> "", n |-> IF b THEN 1 ELSE 0]
UnknownConst == [k |-> "Unknown", s |-> "", n |-> 0]

\* a types.Object: class Const, Var or Func; id is its identity; pkg the
\* path of its package ("" when Pkg() is nil)
Object(class, id, val, pkg) == [class |-> class, id |-> id, val |-> val, pkg |-> pkg]
NoObject == Object("nil", 0, UnknownConst, "")
ConstObj(id, val) == Object("Const", id, val, "p")
VarObj(id) == Object("Var", id, UnknownConst, "p")
FuncObj(id, pkg) == Object("Func", id, UnknownConst, pkg)

\* constant.StringVal: the string of a String, "" for Unknown, panics otherwise
StringVal(val) ==
  CASE val.k = "String" -> [kind |-> "str", s |-> val.s]
    [] val.k = "Unknown" -> [kind |-> "str", s |-> ""]
    [] OTHER -> Panic

(***************************************************************************)
(* go/ast nodes                                                            *)
(***************************************************************************)
BasicLit(tok, value) == [kind |-> "BasicLit", tok |-> tok, value |-> value]
Ident(name, obj) == [kind |-> "Ident", name |-> name, obj |-> obj]
SelectorExpr(x, sel) == [kind |-> "SelectorExpr", x |-> x, sel |-> sel]
CallExpr(fun, args) == [kind |-> "CallExpr", fun |-> fun, args |-> args]
UnaryExpr(x) == [kind |-> "UnaryExpr", x |-> x]
BinaryExpr(x, y) == [kind |-> "BinaryExpr", x |-> x, y |-> y]
KeyValueExpr(key, value) == [kind |-> "KeyValueExpr", key |-> key, value |-> value]
\* typ: what info.TypeOf(lit).String() prints, "" when TypeOf is nil
CompositeLit(typ, elts) == [kind |-> "CompositeLit", typ |-> typ, elts |-> elts]
ExprStmt(x) == [kind |-> "ExprStmt", x |-> x]
AssignStmt(lhs, rhs) == [kind |-> "AssignStmt", lhs |-> lhs, rhs |-> rhs]
ReturnStmt(results) == [kind |-> "ReturnStmt", results |-> results]
BlockStmt(list) == [kind |-> "BlockStmt", list |-> list]
\* recv: TRUE for a method declaration
FuncDecl(name, recv, body) ==
  [kind |-> "FuncDecl", name |-> name, recv |-> recv, body |-> body]
ValueSpec(names, values) == [kind |-> "ValueSpec", names |-> names, values |-> values]
GenDecl(specs) == [kind |-> "GenDecl", specs |-> specs]
File(name, decls) == [kind |-> "File", name |-> name, decls |-> decls]

\* the children ast.Walk visits, in its order
Children(n) ==
  CASE n.kind = "SelectorExpr" -> <<n.x, n.sel>>
    [] n.kind = "CallExpr" -> <<n.fun>> \o n.args
    [] n.kind = "UnaryExpr" -> <<n.x>>
    [] n.kind = "BinaryExpr" -> <<n.x, n.y>>
    [] n.kind = "KeyValueExpr" -> <<n.key, n.value>>
    [] n.kind = "CompositeLit" -> n.elts
    [] n.kind = "ExprStmt" -> <<n.x>>
    [] n.kind = "AssignStmt" -> n.lhs \o n.rhs
    [] n.kind = "ReturnStmt" -> n.results
    [] n.kind = "BlockStmt" -> n.list
    [] n.kind = "FuncDecl" -> <<Ident(n.name, NoObject), n.body>>
    [] n.kind = "ValueSpec" -> n.names \o n.values
    [] n.kind = "GenDecl" -> n.specs
    [] n.kind = "File" -> <<Ident(n.name, NoObject)>> \o n.decls
    [] OTHER -> <<>>

\* every node below n with its path, in depth-first pre-order
RECURSIVE PreOrder(_, _)
RECURSIVE PreOrderSeq(_, _, _)
PreOrder(n, path) ==
  <<[node |-> n, path |-> path]>> \o PreOrderSeq(Children(n), 1, path)
PreOrderSeq(s, i, path) ==
  IF i > Len(s) THEN <<>>
  ELSE PreOrder(s[i], Append(path, i)) \o PreOrderSeq(s, i + 1, path)

IsPrefix(p, q) == Len(p) <= Len(q) /\ SubSeq(q, 1, Len(p)) = p

\* ast.Inspect(root, f), defined below with the callbacks it is given.
\* f is a record naming the function literal and holding the variables it
\* captures.
RECURSIVE Inspect(_, _, _)

(***************************************************************************)
(* cmd/metagen: the resolver, the extractor, the tracer, the locator       *)
(***************************************************************************)
Str(s) == [kind |-> "str", s |-> s]

\* getExprValue: the value of a string literal or of a named constant
getExprValue(expr) ==
  IF expr.kind = "BasicLit" /\ expr.tok = "STRING"
  THEN Str(Trim(expr.value, "\""))
  ELSE IF expr.kind = "Ident" /\ expr.obj.class = "Const"
  THEN StringVal(expr.obj.val)
  ELSE IF expr.kind = "SelectorExpr" /\ expr.sel.obj.class = "Const"
  THEN StringVal(expr.sel.obj.val)
  ELSE Str("")

\* fmt.Sprintf("%s", kv.Key): the name of an identifier key; any other key
\* prints as a struct dump, which is none of the field names
KeyName(key) == IF key.kind = "Ident" THEN key.name ELSE "&{}"

\* the switch of parseCompositeLit: the field keyName of meta set to value
SetField(meta, keyName, value) ==
  IF keyName \in {"Id", "Title", "Type", "Version", "Author", "Description"}
  THEN [meta EXCEPT ![keyName] = value]
  ELSE meta

\* parseCompositeLit: the record of a composite literal, Nil without an Id
parseCompositeLit(expr) ==
  IF expr.kind # "CompositeLit" THEN Nil
  ELSE LET elts == expr.elts
           fill[i \in 0..Len(elts)] ==
             IF i = 0 THEN Found(ZeroMetadata)
             ELSE LET prev == fill[i - 1]
                  IN IF prev.kind = "panic" \/ elts[i].kind # "KeyValueExpr" THEN prev
                     ELSE LET value == getExprValue(elts[i].value)
                          IN IF value.kind = "panic" THEN Panic
                             ELSE Found(SetField(prev.meta, KeyName(elts[i].key), value.s))
           res == fill[Len(elts)]
       IN IF res.kind = "panic" THEN Panic
          ELSE IF res.meta.Id = "" THEN Nil
          ELSE res

\* the type test of findMetadataInFuncBody on info.TypeOf(compLit)
IsMetadataType(typ) == typ # "" /\ HasSuffix(typ, "adapter.Metadata")

\* the callback of findMetadataInFuncBody
VisitCompositeLit(n, foundMeta) ==
  IF n.kind # "CompositeLit" THEN [acc |-> foundMeta, descend |-> TRUE]
  ELSE IF ~IsMetadataType(n.typ) THEN [acc |-> foundMeta, descend |-> TRUE]
  ELSE LET meta == parseCompositeLit(n)
       IN IF meta.kind = "nil" THEN [acc |-> foundMeta, descend |-> TRUE]
          ELSE [acc |-> meta, descend |-> FALSE]

\* findMetadataInFuncBody: Found(record), Nil, or Panic
findMetadataInFuncBody(body) == Inspect(body, [f |-> "VisitCompositeLit"], Nil)

\* the callback of findRegisterCallArgument
VisitCallExpr(n, argExpr) ==
  IF n.kind # "CallExpr" THEN [acc |-> argExpr, descend |-> TRUE]
  ELSE IF n.fun.kind # "SelectorExpr" \/ n.fun.sel.name # "Register"
  THEN [acc |-> argExpr, descend |-> TRUE]
  ELSE IF /\ n.fun.sel.obj.class # "nil"
          /\ n.fun.sel.obj.pkg # ""
          /\ HasSuffix(n.fun.sel.obj.pkg, "meloshub/adapter")
          /\ Len(n.args) > 0
  THEN [acc |-> n.args[1], descend |-> FALSE]
  ELSE [acc |-> argExpr, descend |-> TRUE]

\* findRegisterCallArgument: the first argument of adapter.Register, or Nil
findRegisterCallArgument(body) == Inspect(body, [f |-> "VisitCallExpr"], Nil)

Name(s) == [kind |-> "name", name |-> s]

\* the callback of the assignment walk of findConstructorFunc
VisitAssign(n, constructorName, obj) ==
  IF n.kind # "AssignStmt" \/ Len(n.lhs) # 1 \/ Len(n.rhs) # 1
  THEN [acc |-> constructorName, descend |-> TRUE]
  ELSE IF /\ n.lhs[1].kind = "Ident"
          /\ n.lhs[1].obj = obj
          /\ n.rhs[1].kind = "CallExpr"
          /\ n.rhs[1].fun.kind = "Ident"
  THEN [acc |-> Name(n.rhs[1].fun.name), descend |-> FALSE]
  ELSE [acc |-> constructorName, descend |-> TRUE]

\* the callback of the declaration walk of findConstructorFunc
VisitFuncDecl(n, constructorFunc, constructorName) ==
  IF n.kind = "FuncDecl" /\ n.name = constructorName
  THEN [acc |-> n, descend |-> FALSE]
  ELSE [acc |-> constructorFunc, descend |-> TRUE]

\* the constructor name findConstructorFunc derives from the argument
ConstructorName(file, arg) ==
  LET direct == IF arg.kind = "CallExpr" /\ arg.fun.kind = "Ident"
                THEN arg.fun.name ELSE ""
  IN IF arg.kind = "Ident"
     THEN Inspect(file, [f |-> "VisitAssign", obj |-> arg.obj], Name(direct)).name
     ELSE direct

\* findConstructorFunc: the declaration of the constructor, or Nil
findConstructorFunc(file, arg) ==
  IF arg.kind = "Ident" /\ arg.obj.class = "nil" THEN Nil
  ELSE LET constructorName == ConstructorName(file, arg)
       IN IF constructorName = "" THEN Nil
          ELSE Inspect(file, [f |-> "VisitFuncDecl", constructorName |-> constructorName], Nil)

\* the callback of findMetadataInFile
VisitInit(n, foundMeta, file) ==
  IF n.kind # "FuncDecl" \/ n.name # "init"
  THEN [acc |-> foundMeta, descend |-> TRUE]
  ELSE LET registerArg == findRegisterCallArgument(n.body)
       IN IF registerArg.kind = "nil" THEN [acc |-> foundMeta, descend |-> FALSE]
          ELSE LET constructorFunc == findConstructorFunc(file, registerArg)
               IN IF constructorFunc.kind = "nil"
                  THEN [acc |-> foundMeta, descend |-> FALSE]
                  ELSE LET meta == findMetadataInFuncBody(constructorFunc.body)
                       IN [acc |-> IF meta.kind # "nil" THEN meta ELSE foundMeta,
                           descend |-> FALSE]

\* findMetadataInFile: Found(record), Nil, or Panic
findMetadataInFile(file) == Inspect(file, [f |-> "VisitInit", file |-> file], Nil)

\* the call f(n) of the function literal f, with acc the captured variable
\* it assigns: the variable after the call, and whether f returned true
Callback(f, n, acc) ==
  CASE f.f = "VisitCompositeLit" -> VisitCompositeLit(n, acc)
    [] f.f = "VisitCallExpr" -> VisitCallExpr(n, acc)
    [] f.f = "VisitAssign" -> VisitAssign(n, acc, f.obj)
    [] f.f = "VisitFuncDecl" -> VisitFuncDecl(n, acc, f.constructorName)
    [] f.f = "VisitInit" -> VisitInit(n, acc, f.file)

\* the walk of ast.Inspect from the i-th node of the pre-order ns: f is
\* called on every node that is not below the node it last returned false
\* on (pruned), which skips that node's children and goes on with its next
\* sibling.  A panic in f ends the walk.
RECURSIVE InspectFrom(_, _, _, _, _)
InspectFrom(ns, i, f, acc, pruned) ==
  IF i > Len(ns) \/ acc.kind = "panic" THEN acc
  ELSE IF IsPrefix(pruned, ns[i].path) THEN InspectFrom(ns, i + 1, f, acc, pruned)
  ELSE LET r == Callback(f, ns[i].node, acc)
       IN InspectFrom(ns, i + 1, f, r.acc, IF r.descend THEN <<0>> ELSE ns[i].path)

Inspect(root, f, acc0) == InspectFrom(PreOrder(root, <<>>), 1, f, acc0, <<0>>)

\* a packages.Package: its path, its number of Go files, its syntax trees
Package(path, nfiles, syntax) == [PkgPath |-> path, GoFiles |-> nfiles, Syntax |-> syntax]

\* findMetadataInPackage: the result of the first file that has one
findMetadataInPackage(pkg) ==
  LET scan[i \in 0..Len(pkg.Syntax)] ==
        IF i = 0 THEN Nil
        ELSE IF scan[i - 1].kind # "nil" THEN scan[i - 1]
        ELSE findMetadataInFile(pkg.Syntax[i])
  IN scan[Len(pkg.Syntax)]

isIrrelevantPackage(pkg) == Contains(pkg.PkgPath, "/tools") \/ pkg.GoFiles = 0

(***************************************************************************)
(* The programs the scanner is run on.  They are written with the          *)
(* constructors above; the Go text each one stands for is given next to it.*)
(***************************************************************************)
AdapterPath == "github.com/meloshub/meloshub/adapter"
TargetType == "github.com/meloshub/meloshub/adapter.Metadata"

\* adapter.Register, resolved
RegisterObj == FuncObj(1, AdapterPath)
\* registry.Register of another package
OtherRegisterObj == FuncObj(2, "example.com/registry")
\* the local variables c and d
VarC == VarObj(10)
VarD == VarObj(11)
\* const Version = "v1";  const Build = 7;  the predeclared true
ConstVersion == ConstObj(20, StringConst("v1"))
ConstBuild == ConstObj(21, IntConst(7))
ConstTrue == Object("Const", 22, BoolConst(TRUE), "")

StringLit(text) == BasicLit("STRING", "\"" \o text \o "\"")

\* the expressions the resolver is applied to
ResolverExprs ==
  { StringLit("a"),                                         \* "a"
    StringLit(""),                                          \* ""
    StringLit("a\\\""),                                     \* "a\""
    StringLit("\\\"a"),                                     \* "\"a"
    BasicLit("INT", "42"),                                  \* 42
    Ident("Version", ConstVersion),                          \* Version
    SelectorExpr(Ident("consts", NoObject), Ident("Version", ConstVersion)),
    Ident("c", VarC),                                        \* a variable
    Ident("x", NoObject),                                    \* unresolved
    Ident("Build", ConstBuild),                              \* numeric constant
    SelectorExpr(Ident("consts", NoObject), Ident("Build", ConstBuild)),
    Ident("true", ConstTrue),                                \* true
    Ident("Broken", ConstObj(23, UnknownConst)),             \* ill-typed constant
    BinaryExpr(StringLit("a"), StringLit("b")),              \* "a" + "b"
    CallExpr(Ident("name", FuncObj(3, "p")), <<>>),          \* name()
    SelectorExpr(Ident("cfg", VarD), Ident("Name", VarObj(12))) }  \* cfg.Name

\* T{Id: id, Title: title} with the fields whose expression is not Nil
MetaLit(typ, id, title) ==
  CompositeLit(typ,
    (IF id.kind = "nil" THEN <<>> ELSE <<KeyValueExpr(Ident("Id", NoObject), id)>>)
    \o (IF title.kind = "nil" THEN <<>>
        ELSE <<KeyValueExpr(Ident("Title", NoObject), title)>>))

\* the printed types of the composite literals
LitTypes ==
  { TargetType,
    "example.com/fork/adapter.Metadata",
    "example.com/myadapter.Metadata",
    "example.com/other.Metadata",
    "github.com/meloshub/meloshub/adapter.Config" }

\* the literals a constructor body is made of
Literals ==
  {MetaLit(TargetType, id, StringLit("T")) :
     id \in {StringLit("a"), StringLit("b"), StringLit(""), Nil, BasicLit("INT", "42")}}
  \cup {MetaLit(typ, StringLit("x"), Nil) : typ \in LitTypes \ {TargetType}}
  \cup { \* []adapter.Metadata{{Id: "a"}, {Id: "b"}}
         CompositeLit("[]" \o TargetType,
            <<MetaLit(TargetType, StringLit("a"), Nil),
              MetaLit(TargetType, StringLit("b"), Nil)>>),
         \* myadapter.Metadata{Id: "x", Priority: Build}
         CompositeLit("example.com/myadapter.Metadata",
            <<KeyValueExpr(Ident("Id", NoObject), StringLit("x")),
              KeyValueExpr(Ident("Priority", NoObject), Ident("Build", ConstBuild))>>) }

\* the statements a constructor body is made of: m := lit and
\* return &Adapter{meta: lit}
BodyStmts ==
  {AssignStmt(<<Ident("m", VarD)>>, <<lit>>) : lit \in Literals}
  \cup {ReturnStmt(<<UnaryExpr(CompositeLit("p.Adapter",
          <<KeyValueExpr(Ident("meta", NoObject), lit)>>))>>) : lit \in Literals}

SeqsUpTo(S, n) == UNION {[1..k -> S] : k \in 0..n}

\* the constructor bodies the extractor is applied to
Bodies(n) == {BlockStmt(list) : list \in SeqsUpTo(BodyStmts, n)}

(***************************************************************************)
(* Declarations and files the tracer and the locator are applied to        *)
(***************************************************************************)
MaxDecls == 3

PkgName(name) == Ident(name, Object("PkgName", 30, UnknownConst, "p"))

\* NewFoo(), NewBar(), NewBaz(): calls of plain identifiers
NewCall(name) ==
  CallExpr(Ident(name, FuncObj(CASE name = "NewFoo" -> 40 [] name = "NewBar" -> 42
                                 [] OTHER -> 43, "p")), <<>>)

\* adapter.Register(arg)
RegisterStmt(arg) ==
  ExprStmt(CallExpr(SelectorExpr(PkgName("adapter"), Ident("Register", RegisterObj)),
                    <<arg>>))

InitDecl(stmts) == FuncDecl("init", FALSE, BlockStmt(stmts))

\* func init() { adapter.Register(name()) }
InitDirect(name) == InitDecl(<<RegisterStmt(NewCall(name))>>)

\* func init() { c := name(); adapter.Register(c) }
InitIndirect(name) ==
  InitDecl(<<AssignStmt(<<Ident("c", VarC)>>, <<NewCall(name)>>),
             RegisterStmt(Ident("c", VarC))>>)

\* func init() { c := NewFoo(); c = NewBar(); adapter.Register(c) }
InitReassigned ==
  InitDecl(<<AssignStmt(<<Ident("c", VarC)>>, <<NewCall("NewFoo")>>),
             AssignStmt(<<Ident("c", VarC)>>, <<NewCall("NewBar")>>),
             RegisterStmt(Ident("c", VarC))>>)

\* func init() { adapter.Register(42) }
InitLiteralArg == InitDecl(<<RegisterStmt(BasicLit("INT", "42"))>>)

\* func init() { adapter.Register(factory.New()) }
InitSelectorCall ==
  InitDecl(<<RegisterStmt(CallExpr(SelectorExpr(PkgName("factory"),
                                      Ident("New", FuncObj(41, "example.com/factory"))),
                                   <<>>))>>)

\* func init() { setup() }
InitNoRegister == InitDecl(<<ExprStmt(CallExpr(Ident("setup", FuncObj(42, "p")), <<>>))>>)

\* func init() { registry.Register(NewFoo()) }: Register of another package
InitOtherRegister ==
  InitDecl(<<ExprStmt(CallExpr(SelectorExpr(PkgName("registry"),
                                  Ident("Register", OtherRegisterObj)),
                               <<NewCall("NewFoo")>>))>>)

\* func init() { adapter.Register(d) } with the package-level var d = NewFoo()
InitGlobalVar == InitDecl(<<RegisterStmt(Ident("d", VarD))>>)
VarDecl == GenDecl(<<ValueSpec(<<Ident("d", VarD)>>, <<NewCall("NewFoo")>>)>>)

\* func init() { adapter.Register(NewFoo()); adapter.Register(NewBar()) }
InitTwoRegisters ==
  InitDecl(<<RegisterStmt(NewCall("NewFoo")), RegisterStmt(NewCall("NewBar"))>>)

\* func name() Adapter { return &Adapter{meta: adapter.Metadata{Id: id, Title: title}} }
Constructor(name, id, title) ==
  FuncDecl(name, FALSE,
    BlockStmt(<<ReturnStmt(<<UnaryExpr(CompositeLit("p.Adapter",
       <<KeyValueExpr(Ident("meta", NoObject),
                      MetaLit(TargetType, StringLit(id), StringLit(title)))>>))>>)>>))

\* func (f *Factory) name() *Client { return &Client{} }: a method named name
Method(name) ==
  FuncDecl(name, TRUE,
    BlockStmt(<<ReturnStmt(<<UnaryExpr(CompositeLit("p.Client", <<>>))>>)>>))

\* func name() Adapter { return &Adapter{} }: no metadata literal
BareConstructor(name) ==
  FuncDecl(name, FALSE,
    BlockStmt(<<ReturnStmt(<<UnaryExpr(CompositeLit("p.Adapter", <<>>))>>)>>))

\* func name() Adapter { return &Adapter{meta: myadapter.Metadata{Id: "x", Priority: Build}} }
CrashingConstructor(name) ==
  FuncDecl(name, FALSE,
    BlockStmt(<<ReturnStmt(<<UnaryExpr(CompositeLit("p.Adapter",
       <<KeyValueExpr(Ident("meta", NoObject),
           CompositeLit("example.com/myadapter.Metadata",
             <<KeyValueExpr(Ident("Id", NoObject), StringLit("x")),
               KeyValueExpr(Ident("Priority", NoObject),
                            Ident("Build", ConstBuild))>>))>>))>>)>>))

InitDecls ==
  { InitDirect("NewFoo"), InitDirect("NewBar"), InitIndirect("NewFoo"),
    InitReassigned, InitLiteralArg, InitSelectorCall, InitNoRegister,
    InitOtherRegister, InitGlobalVar, InitTwoRegisters }

OtherDecls ==
  { Constructor("NewFoo", "foo", "Foo"), Constructor("NewBar", "bar", "Bar"),
    Method("NewFoo"), BareConstructor("NewBar"), VarDecl }

\* Go rejects two functions of one name in a package (init excepted); a
\* method may share its name with a function
NoRedeclaration(decls) ==
  \A i, j \in 1..Len(decls) :
    (/\ i < j
     /\ decls[i].kind = "FuncDecl" /\ decls[j].kind = "FuncDecl"
     /\ decls[i].name = decls[j].name /\ decls[i].name # "init")
    => (decls[i].recv \/ decls[j].recv) /\ ~(decls[i].recv /\ decls[j].recv)

\* the files the tracer is applied to
Files(n) ==
  {File("p", decls) : decls \in {d \in SeqsUpTo(InitDecls \cup OtherDecls, n) :
                                   NoRedeclaration(d)}}

\* the registration arguments the tracer is applied to
RegisterArgs ==
  { NewCall("NewFoo"), NewCall("NewBar"), Ident("c", VarC), Ident("d", VarD),
    BasicLit("INT", "42"), Ident("u", NoObject),
    CallExpr(SelectorExpr(PkgName("factory"), Ident("New", FuncObj(41, "example.com/factory"))),
             <<>>) }

(***************************************************************************)
(* The source sets the scanner is run on                                   *)
(***************************************************************************)
SrcPackages ==
  { Package("example.com/adapters/foo", 1,
      <<File("foo", <<InitDirect("NewFoo"), Constructor("NewFoo", "foo", "Foo")>>)>>),
    Package("example.com/adapters/bar", 1,
      <<File("bar", <<InitIndirect("NewBar"), Constructor("NewBar", "bar", "Bar")>>)>>),
    \* a second adapter that registers the Id foo; its first file has an
    \* init without a registration
    Package("example.com/adapters/foo2", 2,
      <<File("foo2", <<InitNoRegister>>),
        File("foo2", <<InitDirect("NewFoo"), Constructor("NewFoo", "foo", "Foo2")>>)>>),
    \* two init functions in one file
    Package("example.com/adapters/baz", 1,
      <<File("baz", <<InitLiteralArg, InitDirect("NewBaz"),
                      Constructor("NewBaz", "baz", "Baz")>>)>>),
    Package("example.com/adapters/noreg", 1,
      <<File("noreg", <<InitNoRegister, Constructor("NewFoo", "foo", "Foo")>>)>>),
    Package("example.com/adapters/literal", 1,
      <<File("literal", <<InitLiteralArg, Constructor("NewFoo", "foo", "Foo")>>)>>),
    Package("example.com/adapters/nolit", 1,
      <<File("nolit", <<InitDirect("NewBar"), BareConstructor("NewBar")>>)>>),
    Package("example.com/tools/gen", 1,
      <<File("gen", <<InitDirect("NewFoo"), Constructor("NewFoo", "gen", "Gen")>>)>>),
    Package("example.com/adapters/empty", 0, <<>>),
    Package("example.com/adapters/crash", 1,
      <<File("crash", <<InitDirect("NewFoo"), CrashingConstructor("NewFoo")>>)>>) }

\* packages.Load returns each package once
Injective(seq) == \A i, j \in 1..Len(seq) : i # j => seq[i] # seq[j]

SourceSets == {pkgs \in SeqsUpTo(SrcPackages, MaxPkgs) : Injective(pkgs)}

\* what is at the output path before the first run
AbsentFile == [kind |-> "absent", text |-> <<>>]
YamlFile(text) == [kind |-> "yaml", text |-> text]
InitialFiles ==
  { AbsentFile,
    [kind |-> "inaccessible", text |-> <<>>],     \* os.Stat fails otherwise
    [kind |-> "unreadable", text |-> <<>>],       \* os.ReadFile fails
    [kind |-> "malformed", text |-> <<>>],        \* yaml.Unmarshal fails
    YamlFile(YamlMarshal(<<>>)),
    YamlFile(YamlMarshal(<<Metadata("foo", "Foo", "", "", "", "")>>)) }

(***************************************************************************)
(* State                                                                   *)
(***************************************************************************)
VARIABLES
  src,          \* metagen: the source set, [loadErr, pkgs]
  outFile,      \* metagen: what is at the -output path
  pc,           \* metagen: where main is
  idx,          \* metagen: packages the loop of main has gone through
  allMetadata,  \* metagen: allMetadata of main
  exitErr,      \* metagen: the error main died of
  wrote,        \* metagen: whether this run wrote the output file
  run,          \* metagen: number of the run
  prev,         \* metagen: how the previous run ended
  dargs,        \* differ: the flags, [old, new]
  dfiles,       \* differ: what is at the two paths, [old, new]
  dpc,          \* differ: where main is
  oldMetadata,  \* differ: oldMetadata of main
  newMetadata,  \* differ: newMetadata of main
  report,       \* differ: report of main
  reportFile,   \* differ: what is at the -output path
  dErr,         \* differ: the error main died of
  input,        \* a function of metagen applied on its own: its arguments
  result        \* ... and its result

scanVars == <<src, outFile, pc, idx, allMetadata, exitErr, wrote, run, prev>>
diffVars == <<dargs, dfiles, dpc, oldMetadata, newMetadata, report, reportFile, dErr>>
astVars == <<input, result>>
vars == <<scanVars, diffVars, astVars>>

NoErr == [err |-> "", id |-> ""]
Err(e) == [err |-> e, id |-> ""]

NoRun == [pc |-> "none", wrote |-> FALSE, outFile |-> AbsentFile]

ScanIdle ==
  /\ src = [loadErr |-> FALSE, pkgs |-> <<>>]
  /\ outFile = AbsentFile
  /\ pc = "idle"
  /\ idx = 0
  /\ allMetadata = <<>>
  /\ exitErr = NoErr
  /\ wrote = FALSE
  /\ run = 0
  /\ prev = NoRun

EmptyReport == [Added |-> <<>>, Removed |-> <<>>, Updated |-> <<>>]

DiffIdle ==
  /\ dargs = [old |-> "", new |-> ""]
  /\ dfiles = [old |-> AbsentFile, new |-> AbsentFile]
  /\ dpc = "idle"
  /\ oldMetadata = <<>>
  /\ newMetadata = <<>>
  /\ report = EmptyReport
  /\ reportFile = Nil
  /\ dErr = NoErr

Pending == [kind |-> "pending"]

AstIdle ==
  /\ input = [fn |-> "idle"]
  /\ result = Pending

(***************************************************************************)
(* cmd/metagen: main                                                       *)
(***************************************************************************)
\* the less function main gives to sort.Slice
Less(a, b) == StrLess(a.Id, b.Id)

Swap(data, i, j) == [data EXCEPT ![i] = data[j], ![j] = data[i]]

\* the inner loop of the insertion sort: data[j] sinks while it is less
\* than its left neighbour
RECURSIVE Sink(_, _)
Sink(data, j) ==
  IF j > 1 /\ Less(data[j], data[j - 1]) THEN Sink(Swap(data, j, j - 1), j - 1)
  ELSE data

RECURSIVE InsertionSortFrom(_, _)
InsertionSortFrom(data, i) ==
  IF i > Len(data) THEN data ELSE InsertionSortFrom(Sink(data, i), i + 1)

\* a main that writes the records in the order of collection
SortSliceOmitted(data) == data

\* sort.Slice, which sorts slices of fewer than 12 elements by insertion
SortSlice(data) == InsertionSortFrom(data, 2)

\* the loop of checkConflicts over its newMetadata (metas) from the i-th
\* record, with newIdSet the Ids seen: the error it returns
RECURSIVE CheckDuplicates(_, _, _)
CheckDuplicates(metas, i, newIdSet) ==
  IF i > Len(metas) THEN NoErr
  ELSE IF metas[i].Id \in newIdSet
  THEN [err |-> "duplicate", id |-> metas[i].Id]
  ELSE CheckDuplicates(metas, i + 1, newIdSet \cup {metas[i].Id})

\* checkConflicts: the error it returns for the file at filePath
checkConflicts(metas, file) ==
  CASE file.kind = "absent" -> NoErr
    [] file.kind = "inaccessible" -> Err("stat")
    [] file.kind = "unreadable" -> Err("read")
    [] file.kind = "malformed" -> Err("parse")
    [] OTHER -> CheckDuplicates(metas, 1, {})

\* main up to the loop: packages.Load
Load ==
  /\ pc = "load"
  /\ IF src.loadErr
     THEN /\ pc' = "fatal"
          /\ exitErr' = Err("load")
     ELSE /\ pc' = "scan"
          /\ exitErr' = exitErr
  /\ UNCHANGED <<src, outFile, idx, allMetadata, wrote, run, prev>>
  /\ UNCHANGED <<diffVars, astVars>>

\* a loop of main that dies of a package without a record
ScanPackageFatalOnNil ==
  /\ pc = "scan"
  /\ idx < Len(src.pkgs)
  /\ LET pkg == src.pkgs[idx + 1]
         meta == IF isIrrelevantPackage(pkg) THEN Nil ELSE findMetadataInPackage(pkg)
     IN /\ idx' = idx + 1
        /\ pc' = IF meta.kind = "panic" THEN "panic"
                 ELSE IF meta.kind = "nil" /\ ~isIrrelevantPackage(pkg) THEN "fatal"
                 ELSE "scan"
        /\ exitErr' = IF meta.kind = "nil" /\ ~isIrrelevantPackage(pkg)
                      THEN Err("no metadata") ELSE exitErr
        /\ allMetadata' = IF meta.kind = "meta" THEN Append(allMetadata, meta.meta)
                          ELSE allMetadata
  /\ UNCHANGED <<src, outFile, wrote, run, prev>>
  /\ UNCHANGED <<diffVars, astVars>>

\* one iteration of the loop of main over pkgs
ScanPackage ==
  /\ pc = "scan"
  /\ idx < Len(src.pkgs)
  /\ LET pkg == src.pkgs[idx + 1]
         meta == IF isIrrelevantPackage(pkg) THEN Nil ELSE findMetadataInPackage(pkg)
     IN /\ idx' = idx + 1
        /\ pc' = IF meta.kind = "panic" THEN "panic" ELSE "scan"
        /\ allMetadata' = IF meta.kind = "meta" THEN Append(allMetadata, meta.meta)
                          ELSE allMetadata
  /\ UNCHANGED <<src, outFile, exitErr, wrote, run, prev>>
  /\ UNCHANGED <<diffVars, astVars>>

\* main after the loop: the conflict check
CheckConflicts ==
  /\ pc = "scan"
  /\ idx = Len(src.pkgs)
  /\ LET err == checkConflicts(allMetadata, outFile)
     IN IF err # NoErr
        THEN /\ pc' = "fatal"
             /\ exitErr' = err
        ELSE /\ pc' = "write"
             /\ exitErr' = exitErr
  /\ UNCHANGED <<src, outFile, idx, allMetadata, wrote, run, prev>>
  /\ UNCHANGED <<diffVars, astVars>>

\* main after the check: sort, marshal, write
SortAndWrite ==
  /\ pc = "write"
  /\ allMetadata' = SortSlice(allMetadata)
  /\ outFile' = YamlFile(YamlMarshal(allMetadata'))
  /\ wrote' = TRUE
  /\ pc' = "done"
  /\ UNCHANGED <<src, idx, exitErr, run, prev>>
  /\ UNCHANGED <<diffVars, astVars>>

\* the scanner is run again on the same source set and output path
RunAgain ==
  /\ pc \in {"done", "fatal", "panic"}
  /\ run < MaxRuns
  /\ prev' = [pc |-> pc, wrote |-> wrote, outFile |-> outFile]
  /\ run' = run + 1
  /\ pc' = "load"
  /\ idx' = 0
  /\ allMetadata' = <<>>
  /\ exitErr' = NoErr
  /\ wrote' = FALSE
  /\ UNCHANGED <<src, outFile>>
  /\ UNCHANGED <<diffVars, astVars>>

Init ==
  /\ src \in [loadErr : BOOLEAN, pkgs : SourceSets]
  /\ outFile \in InitialFiles
  /\ pc = "load"
  /\ idx = 0
  /\ allMetadata = <<>>
  /\ exitErr = NoErr
  /\ wrote = FALSE
  /\ run = 1
  /\ prev = NoRun
  /\ DiffIdle
  /\ AstIdle

Next == Load \/ ScanPackage \/ CheckConflicts \/ SortAndWrite \/ RunAgain

Spec == Init /\ [][Next]_vars

(***************************************************************************)
(* Properties of the scanner                                               *)
(***************************************************************************)
HasDuplicateId(metas) ==
  \E i, j \in 1..Len(metas) : i < j /\ metas[i].Id = metas[j].Id

Sorted(metas) ==
  \A i, j \in 1..Len(metas) : i < j => ~StrLess(metas[j].Id, metas[i].Id)

Occurrences(metas, m) == Cardinality({i \in 1..Len(metas) : metas[i] = m})

IsPermutation(a, b) ==
  /\ Len(a) = Len(b)
  /\ \A i \in 1..Len(a) : Occurrences(a, a[i]) = Occurrences(b, a[i])

\* C1: whether or not a snapshot is at the output path, a run that has
\* collected two records with the same Id dies of the duplicate-identifier
\* error and writes no output file.
C1_DuplicateIdsAreFatal ==
  (/\ HasDuplicateId(allMetadata)
   /\ idx = Len(src.pkgs)
   /\ pc \in {"write", "done", "fatal"}
   /\ outFile.kind \in {"absent", "yaml"})
  => (pc = "fatal" /\ exitErr.err = "duplicate" /\ ~wrote)

\* a run that has collected a duplicate Id with no file at the output path
\* and has passed the conflict check
C1_DuplicatePassedCheck ==
  pc = "write" /\ HasDuplicateId(allMetadata) /\ outFile.kind = "absent"

\* C3: a run that follows, on the same source set and output path, a run
\* that wrote the output file completes as well and leaves the file as the
\* first run wrote it.
C3_RescanIsIdempotent ==
  prev.wrote =>
    /\ pc \notin {"fatal", "panic"}
    /\ pc = "done" => outFile = prev.outFile

\* the second run has died although the first wrote its output
C3_SecondRunDied == prev.wrote /\ pc = "fatal"

\* the initializer decl of file fails at one of the three stages
StageFails(file, decl) ==
  LET registerArg == findRegisterCallArgument(decl.body)
  IN \/ registerArg.kind = "nil"
     \/ LET constructorFunc == findConstructorFunc(file, registerArg)
        IN \/ constructorFunc.kind = "nil"
           \/ findMetadataInFuncBody(constructorFunc.body).kind = "nil"

\* every initializer of the package fails at one of the three stages
UnitFails(pkg) ==
  \A f \in 1..Len(pkg.Syntax) : \A d \in 1..Len(pkg.Syntax[f].decls) :
    LET decl == pkg.Syntax[f].decls[d]
    IN (decl.kind = "FuncDecl" /\ decl.name = "init") => StageFails(pkg.Syntax[f], decl)

C9_WrittenIsSortedPermutation ==
  [][(wrote' /\ ~wrote) =>
       LET written == YamlUnmarshal(outFile'.text)
       IN /\ outFile'.kind = "yaml"
          /\ IsPermutation(written, allMetadata)
          /\ Sorted(written)
          /\ \A i \in 1..Len(written) : written[i].Id # ""
    ]_vars

\* two records collected in descending order of Id have been written
C9_WroteReordered ==
  /\ wrote
  /\ Len(src.pkgs) = 2
  /\ src.pkgs[1].PkgPath = "example.com/adapters/foo"
  /\ src.pkgs[2].PkgPath = "example.com/adapters/bar"
  /\ YamlUnmarshal(outFile.text) =
       <<Metadata("bar", "Bar", "", "", "", ""), Metadata("foo", "Foo", "", "", "", "")>>

(***************************************************************************)
(* cmd/differ                                                              *)
(***************************************************************************)
\* the records of the snapshots the differ is run on
DiffRecords ==
  { Metadata("a", "T1", "", "v1", "", ""), Metadata("a", "T2", "", "v1", "", ""),
    Metadata("a", "T1", "", "v2", "", ""), Metadata("b", "T1", "", "v1", "", "") }

Snapshots == SeqsUpTo(DiffRecords, MaxList)

\* what can be at the path of a snapshot
SnapshotFiles ==
  { AbsentFile, [kind |-> "unreadable", text |-> <<>>], [kind |-> "malformed", text |-> <<>>] }
  \cup {YamlFile(YamlMarshal(list)) : list \in Snapshots}

\* a map[string]adapter.Metadata without entries
EmptyMap == [id \in {} |-> ZeroMetadata]

\* m[rec.Id] = rec
MapPut(m, rec) ==
  [id \in DOMAIN m \cup {rec.Id} |-> IF id = rec.Id THEN rec ELSE m[id]]

\* loops that keep the first record of an Id
RECURSIVE BuildMapFirstWins(_, _, _)
BuildMapFirstWins(list, i, m) ==
  IF i > Len(list) THEN m
  ELSE BuildMapFirstWins(list, i + 1,
         IF list[i].Id \in DOMAIN m THEN m ELSE MapPut(m, list[i]))

\* the loops of compareMetadata that fill oldMap and newMap
RECURSIVE BuildMap(_, _, _)
BuildMap(list, i, m) ==
  IF i > Len(list) THEN m ELSE BuildMap(list, i + 1, MapPut(m, list[i]))

\* the orders in which a range over the map m can yield its keys
KeyOrders(m) ==
  {keys \in [1..Cardinality(DOMAIN m) -> DOMAIN m] :
     \A i, j \in DOMAIN keys : i # j => keys[i] # keys[j]}

\* the test of compareMetadata on the two serialisations
YamlDiffers(oldMeta, newMeta) == YamlRecord(oldMeta) # YamlRecord(newMeta)

\* the loop of compareMetadata over newMap, its keys coming in the order keys
RECURSIVE AddedAndUpdated(_, _, _, _, _)
AddedAndUpdated(keys, i, oldMap, newMap, rep) ==
  IF i > Len(keys) THEN rep
  ELSE LET id == keys[i]
           newMeta == newMap[id]
       IN IF id \notin DOMAIN oldMap
          THEN AddedAndUpdated(keys, i + 1, oldMap, newMap,
                 [rep EXCEPT !.Added = Append(@, newMeta)])
          ELSE IF YamlDiffers(oldMap[id], newMeta)
          THEN AddedAndUpdated(keys, i + 1, oldMap, newMap,
                 [rep EXCEPT !.Updated = Append(@, [Before |-> oldMap[id], After |-> newMeta])])
          ELSE AddedAndUpdated(keys, i + 1, oldMap, newMap, rep)

\* the loop of compareMetadata over oldMap
RECURSIVE RemovedFrom(_, _, _, _, _)
RemovedFrom(keys, i, oldMap, newMap, rep) ==
  IF i > Len(keys) THEN rep
  ELSE IF keys[i] \notin DOMAIN newMap
  THEN RemovedFrom(keys, i + 1, oldMap, newMap,
         [rep EXCEPT !.Removed = Append(@, oldMap[keys[i]])])
  ELSE RemovedFrom(keys, i + 1, oldMap, newMap, rep)

\* compareMetadata, with the orders in which the two maps are ranged over
compareMetadata(oldList, newList, newKeys, oldKeys) ==
  LET oldMap == BuildMap(oldList, 1, EmptyMap)
      newMap == BuildMap(newList, 1, EmptyMap)
  IN RemovedFrom(oldKeys, 1, oldMap, newMap,
       AddedAndUpdated(newKeys, 1, oldMap, newMap, EmptyReport))

\* json.MarshalIndent of a slice: null for a nil slice
JsonList(list) == [null |-> list = <<>>, items |-> list]

\* json.MarshalIndent of the report
JsonMarshal(rep) ==
  [kind |-> "json",
   added |-> JsonList(rep.Added), removed |-> JsonList(rep.Removed),
   updated |-> JsonList(rep.Updated)]

\* main: the check of the flags
ParseFlags ==
  /\ dpc = "start"
  /\ IF dargs.old = "" \/ dargs.new = ""
     THEN /\ dpc' = "fatal"
          /\ dErr' = Err("flags")
     ELSE /\ dpc' = "readOld"
          /\ dErr' = dErr
  /\ UNCHANGED <<dargs, dfiles, oldMetadata, newMetadata, report, reportFile>>
  /\ UNCHANGED <<scanVars, astVars>>

\* a main to which a missing old file is an error like any other
ReadOldMissingIsFatal ==
  /\ dpc = "readOld"
  /\ CASE dfiles.old.kind \in {"absent", "unreadable"} ->
            /\ dpc' = "fatal"
            /\ dErr' = Err("read old")
            /\ oldMetadata' = oldMetadata
       [] dfiles.old.kind = "malformed" ->
            /\ dpc' = "fatal"
            /\ dErr' = Err("parse old")
            /\ oldMetadata' = oldMetadata
       [] OTHER ->
            /\ oldMetadata' = YamlUnmarshal(dfiles.old.text)
            /\ dpc' = "readNew"
            /\ dErr' = dErr
  /\ UNCHANGED <<dargs, dfiles, newMetadata, report, reportFile>>
  /\ UNCHANGED <<scanVars, astVars>>

\* main: the old file is read and parsed; a missing one is an empty list
ReadOld ==
  /\ dpc = "readOld"
  /\ CASE dfiles.old.kind = "absent" ->
            /\ oldMetadata' = <<>>
            /\ dpc' = "readNew"
            /\ dErr' = dErr
       [] dfiles.old.kind = "unreadable" ->
            /\ dpc' = "fatal"
            /\ dErr' = Err("read old")
            /\ oldMetadata' = oldMetadata
       [] dfiles.old.kind = "malformed" ->
            /\ dpc' = "fatal"
            /\ dErr' = Err("parse old")
            /\ oldMetadata' = oldMetadata
       [] OTHER ->
            /\ oldMetadata' = YamlUnmarshal(dfiles.old.text)
            /\ dpc' = "readNew"
            /\ dErr' = dErr
  /\ UNCHANGED <<dargs, dfiles, newMetadata, report, reportFile>>
  /\ UNCHANGED <<scanVars, astVars>>

\* main: the new file is read and parsed
ReadNew ==
  /\ dpc = "readNew"
  /\ CASE dfiles.new.kind \in {"absent", "unreadable"} ->
            /\ dpc' = "fatal"
            /\ dErr' = Err("read new")
            /\ newMetadata' = newMetadata
       [] dfiles.new.kind = "malformed" ->
            /\ dpc' = "fatal"
            /\ dErr' = Err("parse new")
            /\ newMetadata' = newMetadata
       [] OTHER ->
            /\ newMetadata' = YamlUnmarshal(dfiles.new.text)
            /\ dpc' = "compare"
            /\ dErr' = dErr
  /\ UNCHANGED <<dargs, dfiles, oldMetadata, report, reportFile>>
  /\ UNCHANGED <<scanVars, astVars>>

\* main: the report is computed
Compare ==
  /\ dpc = "compare"
  /\ \E newKeys \in KeyOrders(BuildMap(newMetadata, 1, EmptyMap)),
        oldKeys \in KeyOrders(BuildMap(oldMetadata, 1, EmptyMap)) :
       report' = compareMetadata(oldMetadata, newMetadata, newKeys, oldKeys)
  /\ dpc' = "write"
  /\ UNCHANGED <<dargs, dfiles, oldMetadata, newMetadata, reportFile, dErr>>
  /\ UNCHANGED <<scanVars, astVars>>

\* main: the report is marshalled and written
WriteReport ==
  /\ dpc = "write"
  /\ reportFile' = JsonMarshal(report)
  /\ dpc' = "done"
  /\ UNCHANGED <<dargs, dfiles, oldMetadata, newMetadata, report, dErr>>
  /\ UNCHANGED <<scanVars, astVars>>

\* the flags, and what is at the path each names (nothing at the path "")
DiffInit ==
  /\ dargs \in [old : {"", "old.yaml"}, new : {"", "new.yaml"}]
  /\ dfiles \in [old : SnapshotFiles, new : SnapshotFiles]
  /\ dargs.old = "" => dfiles.old = AbsentFile
  /\ dargs.new = "" => dfiles.new = AbsentFile
  /\ dpc = "start"
  /\ oldMetadata = <<>>
  /\ newMetadata = <<>>
  /\ report = EmptyReport
  /\ reportFile = Nil
  /\ dErr = NoErr
  /\ ScanIdle
  /\ AstIdle

DiffNext == ParseFlags \/ ReadOld \/ ReadNew \/ Compare \/ WriteReport

DiffSpec == DiffInit /\ [][DiffNext]_vars

(***************************************************************************)
(* Properties of the differ                                                *)
(***************************************************************************)
Range(seq) == {seq[i] : i \in 1..Len(seq)}

Ids(list) == {list[i].Id : i \in 1..Len(list)}

\* the last record of list with the Id id
LastOf(list, id) ==
  list[CHOOSE i \in 1..Len(list) :
         list[i].Id = id /\ \A j \in (i + 1)..Len(list) : list[j].Id # id]

\* C2: with each collection reduced to the last record of each Id, Added
\* holds exactly the after-records whose Id is not in before, Removed exactly
\* the before-records whose Id is not in after, Updated exactly one pair for
\* each Id in both whose two records differ; an Id with equal records is in
\* no list and no Id is in two lists.
C2_ReportIsExactDifference ==
  dpc \in {"write", "done"} =>
    LET onlyAfter == Ids(newMetadata) \ Ids(oldMetadata)
        onlyBefore == Ids(oldMetadata) \ Ids(newMetadata)
        changed == {id \in Ids(oldMetadata) \cap Ids(newMetadata) :
                      LastOf(oldMetadata, id) # LastOf(newMetadata, id)}
    IN /\ Range(report.Added) = {LastOf(newMetadata, id) : id \in onlyAfter}
       /\ Len(report.Added) = Cardinality(onlyAfter)
       /\ Range(report.Removed) = {LastOf(oldMetadata, id) : id \in onlyBefore}
       /\ Len(report.Removed) = Cardinality(onlyBefore)
       /\ Range(report.Updated) =
            {[Before |-> LastOf(oldMetadata, id), After |-> LastOf(newMetadata, id)] :
               id \in changed}
       /\ Len(report.Updated) = Cardinality(changed)

\* a report with an added and an updated record
C2_AddedAndUpdated ==
  /\ dpc = "done"
  /\ Len(report.Added) = 1
  /\ Len(report.Updated) = 1

\* the run cannot succeed: the new file is missing, a file is malformed or a
\* path is empty
MustFail ==
  \/ dargs.old = ""
  \/ dargs.new = ""
  \/ dfiles.new.kind = "absent"
  \/ dfiles.old.kind = "malformed"
  \/ dfiles.new.kind = "malformed"

AstInputs(stmts, decls) ==
  {[fn |-> "getExprValue", expr |-> e] : e \in ResolverExprs}
  \cup {[fn |-> "findMetadataInFuncBody", body |-> b] : b \in Bodies(stmts)}
  \cup {[fn |-> "findConstructorFunc", file |-> f, arg |-> a] :
          f \in Files(decls), a \in RegisterArgs}

ApplyGetExprValue ==
  /\ input.fn = "getExprValue"
  /\ result = Pending
  /\ result' = getExprValue(input.expr)
  /\ UNCHANGED <<input, scanVars, diffVars>>

ApplyFindMetadataInFuncBody ==
  /\ input.fn = "findMetadataInFuncBody"
  /\ result = Pending
  /\ result' = findMetadataInFuncBody(input.body)
  /\ UNCHANGED <<input, scanVars, diffVars>>

ApplyFindConstructorFunc ==
  /\ input.fn = "findConstructorFunc"
  /\ result = Pending
  /\ result' = findConstructorFunc(input.file, input.arg)
  /\ UNCHANGED <<input, scanVars, diffVars>>

AstInit ==
  /\ input \in AstInputs(MaxStmts, MaxDecls)
  /\ result = Pending
  /\ ScanIdle
  /\ DiffIdle

AstNext == ApplyGetExprValue \/ ApplyFindMetadataInFuncBody \/ ApplyFindConstructorFunc

AstSpec == AstInit /\ [][AstNext]_vars

(***************************************************************************)
(* Properties of the functions of cmd/metagen                              *)
(***************************************************************************)
\* the text of a string literal between its delimiters
Unquoted(value) == SubSeq(value, 2, Len(value) - 1)

\* the string the resolver is to return for expr
ResolvedValue(expr) ==
  IF expr.kind = "BasicLit" /\ expr.tok = "STRING" THEN Unquoted(expr.value)
  ELSE IF expr.kind = "Ident" /\ expr.obj.class = "Const" /\ expr.obj.val.k = "String"
  THEN expr.obj.val.s
  ELSE IF /\ expr.kind = "SelectorExpr" /\ expr.sel.obj.class = "Const"
          /\ expr.sel.obj.val.k = "String"
  THEN expr.sel.obj.val.s
  ELSE ""

\* C7: getExprValue returns a string for every expression and never fails:
\* the text of a string literal without its quotes, the string value of a
\* named constant, local or qualified, and "" for every other expression,
\* numeric and computed ones included.
C7_ResolverNeverFails ==
  (input.fn = "getExprValue" /\ result # Pending) =>
    result = Str(ResolvedValue(input.expr))

\* getExprValue has panicked
C7_ResolverPanicked == input.fn = "getExprValue" /\ result = Panic

\* the places in the pre-order of body of the literals the extractor takes
\* for the target type and that have a non-empty Id
ValidLiterals(body) ==
  LET ns == PreOrder(body, <<>>)
  IN {i \in 1..Len(ns) :
        /\ ns[i].node.kind = "CompositeLit"
        /\ IsMetadataType(ns[i].node.typ)
        /\ parseCompositeLit(ns[i].node).kind = "meta"}

\* C6: findMetadataInFuncBody returns the record of the first literal of the
\* target type, in pre-order, whose Id is non-empty, whatever comes after
\* it, and "not found" exactly when the body has no such literal.
C6_FirstValidLiteralWins ==
  (input.fn = "findMetadataInFuncBody" /\ result \notin {Pending, Panic}) =>
    LET ns == PreOrder(input.body, <<>>)
        valid == ValidLiterals(input.body)
    IN IF valid = {} THEN result = Nil
       ELSE result = parseCompositeLit(ns[CHOOSE i \in valid : \A j \in valid : i <= j].node)

\* the record returned is the one of a literal that comes after a valid one
C6_LaterLiteralReturned ==
  /\ input.fn = "findMetadataInFuncBody"
  /\ result.kind = "meta"
  /\ LET ns == PreOrder(input.body, <<>>)
         valid == ValidLiterals(input.body)
     IN result # parseCompositeLit(ns[CHOOSE i \in valid : \A j \in valid : i <= j].node)

\* C10: a record comes only from a composite literal whose resolved type is
\* adapter.Metadata itself, never from a literal of another type whose name
\* ends alike.
C10_MatchesByTypeIdentity ==
  (input.fn = "findMetadataInFuncBody" /\ result.kind = "meta") =>
    LET ns == PreOrder(input.body, <<>>)
    IN \E i \in 1..Len(ns) :
         /\ ns[i].node.kind = "CompositeLit"
         /\ ns[i].node.typ = TargetType
         /\ parseCompositeLit(ns[i].node) = result

\* a record has come out of a body without a literal of adapter.Metadata
C10_ForeignTypeAccepted ==
  /\ input.fn = "findMetadataInFuncBody"
  /\ result.kind = "meta"
  /\ LET ns == PreOrder(input.body, <<>>)
     IN \A i \in 1..Len(ns) :
          ns[i].node.kind = "CompositeLit" => ns[i].node.typ # TargetType

\* the names F of the two shapes: arg is a call F(), or arg is a variable
\* that an assignment with one target and the value F() assigns
ConstructorNames(file, arg) ==
  IF arg.kind = "CallExpr" /\ arg.fun.kind = "Ident" THEN {arg.fun.name}
  ELSE IF arg.kind = "Ident" /\ arg.obj.class = "Var"
  THEN LET ns == PreOrder(file, <<>>)
       IN {ns[i].node.rhs[1].fun.name : i \in
             {k \in 1..Len(ns) :
                /\ ns[k].node.kind = "AssignStmt"
                /\ Len(ns[k].node.lhs) = 1 /\ Len(ns[k].node.rhs) = 1
                /\ ns[k].node.lhs[1].kind = "Ident"
                /\ ns[k].node.lhs[1].obj = arg.obj
                /\ ns[k].node.rhs[1].kind = "CallExpr"
                /\ ns[k].node.rhs[1].fun.kind = "Ident"}}
  ELSE {}

\* the declarations in file, of functions and of methods, with a name of names
DeclsNamed(file, names) ==
  {file.decls[i] : i \in
     {k \in 1..Len(file.decls) :
        file.decls[k].kind = "FuncDecl" /\ file.decls[k].name \in names}}

\* those of functions
FunctionsNamed(file, names) == {d \in DeclsNamed(file, names) : ~d.recv}

\* C5: for Register(F()) and for c := F(); Register(c), findConstructorFunc
\* returns the declaration of the function F of the file when there is one;
\* for every other argument, or without a declaration named F, it returns
\* nil.  (What it is to return when only a method is named F, or when the
\* variable is assigned the calls of several functions, is left open.)
C5_TracerCoversBothShapes ==
  (input.fn = "findConstructorFunc" /\ result # Pending) =>
    LET names == ConstructorNames(input.file, input.arg)
    IN /\ DeclsNamed(input.file, names) = {} => result = Nil
       /\ (Cardinality(names) = 1 /\ FunctionsNamed(input.file, names) # {}) =>
            result \in FunctionsNamed(input.file, names)

\* a method has been returned although the file declares the function
C5_MethodReturned ==
  /\ input.fn = "findConstructorFunc"
  /\ result \notin {Pending, Nil}
  /\ result.recv
  /\ Cardinality(ConstructorNames(input.file, input.arg)) = 1
  /\ FunctionsNamed(input.file, ConstructorNames(input.file, input.arg)) # {}

====
